---- MODULE Spec2Model ----
(***************************************************************************)
(* A model of the Synapse AI learning assistant (src/app.py and            *)
(* src/utils).  The program is a Streamlit script: every user interaction  *)
(* runs the whole script once against st.session_state; st.rerun() stops   *)
(* the run and starts another one with no widget triggered.  One script    *)
(* run is the operator Script; the actions of the model are the user's     *)
(* interactions (each followed by one script run) and the automatic rerun. *)
(* The hosted model, the embedding service and the Supabase tables are the *)
(* environment: every call's outcome is drawn from the outcomes the call   *)
(* can have (an oracle record o).                                          *)
(*                                                                         *)
(* Python's None is modelled per field: the empty plan <<>> for            *)
(* lesson_plan (the code never stores an empty list, app.py:40), the quiz  *)
(* value of kind "none" for quiz_questions, goal id 0 for current_goal,    *)
(* NoKey for a key absent from st.session_state.  Indices keep Python's    *)
(* base 0; At(s, i) reads s[i].  The users row is taken to carry the       *)
(* knowledge_level column the script reads (app.py:373, 395, 433).         *)
(***************************************************************************)
EXTENDS Integers, Sequences, FiniteSets, TLC

\* ---------------------------------------------------------------- bounds
MaxLines == 2       \* lines of a lesson-plan response of the model
MaxQuestions == 2   \* questions of a generated quiz
NumOptions == 2     \* options offered per question
MaxSessions == 2    \* guided sessions started in one UI session
MaxChats == 1       \* free-form questions asked in one UI session
MaxFaults == 1      \* external calls of one UI session whose failure leaves a trace
MaxChunks == 2      \* chunks the text of an uploaded document wraps into
MaxRows == 4        \* rows of the documents table
MaxText == 7        \* characters of a lesson-plan response
MaxArticle == 2002  \* characters of a scraped article
MaxClients == 2     \* browser sessions logging in at the same time
MaxUserRows == 3    \* rows of the users table

\* ------------------------------------------------------------- constants
Levels == {"Beginner", "Intermediate", "Expert"}
Modes == {"Guided Learning Session", "General Q&A", "Study a Document"}
\* The knowledge_level of the user's row in the users table.
StoredLevels == {"Beginner"}
NoKey == "no_key"
NoUser == [id |-> 0, knowledge_level |-> NoKey]
NoGoal == [id |-> 0, total_steps |-> 0]
NoAnswer == 0                       \* st.radio(index=None) submitted untouched
Answers == 0..NumOptions            \* what a form submission can carry
QIdx == 0..(MaxQuestions - 1)

At(s, i) == s[i + 1]
Last(s) == s[Len(s)]

\* ------------------------------------------------- values of the generators
NoneQuiz == [kind |-> "none", items |-> <<>>]
Question == [correct_answer : 1..NumOptions]
QuestionLists == UNION {[1..n -> Question] : n \in 1..MaxQuestions}
\* What the model can answer to the quiz prompt: the call raises, the text is
\* not JSON, or the text is JSON: a list of questions (possibly empty) or a
\* JSON object.
QuizResponses ==
    {[kind |-> k, items |-> <<>>] : k \in {"exception", "invalid_json", "list", "object"}}
      \cup {[kind |-> "list", items |-> q] : q \in QuestionLists}

\* utils/quiz_generator.py: json.loads of the response, None on any exception.
generate_quiz(resp) ==
    IF resp.kind \in {"exception", "invalid_json"} THEN NoneQuiz ELSE resp

\* Python truthiness of the value generate_quiz returned (`if quiz:`).
Truthy(quiz) ==
    \/ quiz.kind = "object"
    \/ quiz.kind = "list" /\ Len(quiz.items) > 0

\* len(questions): a JSON object with one key has length 1.
PyLen(quiz) == IF quiz.kind = "list" THEN Len(quiz.items) ELSE 1

\* A lesson-plan response: "exception", or lines; line k is numbered ("d. X")
\* or not, and the text X of line k is the sub-topic k.
PlanLines == UNION {[1..n -> BOOLEAN] : n \in 0..MaxLines}
PlanResponses == {[raises |-> TRUE, lines |-> <<>>]}
                   \cup {[raises |-> FALSE, lines |-> l] : l \in PlanLines}

RECURSIVE FindAll(_, _)
\* re.findall(r'\d+\.\s*(.*)', text): the texts of the numbered lines, in order.
FindAll(lines, k) ==
    IF k > Len(lines) THEN <<>>
    ELSE (IF lines[k] THEN <<k>> ELSE <<>>) \o FindAll(lines, k + 1)

\* A generate_lesson_plan that falls back to a one-step plan when the
\* response holds no list item.
generate_lesson_plan_fallback(resp) ==
    IF resp.raises THEN <<>>
    ELSE IF FindAll(resp.lines, 1) = <<>> THEN <<1>> ELSE FindAll(resp.lines, 1)

\* app.py generate_lesson_plan: the plan, or None (<<>>) when nothing is
\* recovered or the call raises.
generate_lesson_plan(resp) ==
    IF resp.raises THEN <<>> ELSE FindAll(resp.lines, 1)

\* Message contents.  An explanation is the model's text for a sub-topic at a
\* level, or the "An error occurred: ..." string of the except branch.
Explanation(sub_topic, level, outcome) ==
    [kind |-> IF outcome = "ok" THEN "explanation" ELSE "error",
     sub_topic |-> sub_topic, level |-> level]
Intro == [kind |-> "intro", sub_topic |-> 0, level |-> NoKey]
UserText == [kind |-> "question", sub_topic |-> 0, level |-> NoKey]
Answer(outcome) ==
    [kind |-> IF outcome = "ok" THEN "answer" ELSE "error",
     sub_topic |-> 0, level |-> NoKey]
Msg(role, content) == [role |-> role, content |-> content]

\* One external call, as issued: the function, the knowledge level in its
\* prompt (NoKey when it has none) and its numeric argument.
Call(fn, level, value) == [fn |-> fn, level |-> level, value |-> value]

\* The browser sessions that log in, and the names they type.
Clients == 1..MaxClients
Usernames == {"ann", "bob"}
\* A session at the login form: no statement of get_or_create_user run yet.
AtLoginForm == [pc |-> "form", username |-> NoKey, data |-> 0, user_id |-> 0]

\* ------------------------------------------------------------------ state
VARIABLES
    ss,              \* st.session_state
    conversations,   \* Supabase table conversations (one user)
    learning_goals,  \* Supabase table learning_goals; the row id is its index
    rerun,           \* st.rerun() was called: the script is about to run again
    shown,           \* the screen the last script run rendered
    event,           \* while a rerun is pending: the interaction being handled
    calls,           \* the external calls the last script run issued
    hist,            \* history variables the claims read
    storage,         \* Supabase storage bucket: the names of the stored files
    documents,       \* Supabase table documents: rows of (file_name, chunk)
    result,          \* the last call of a function checked on its own
    users,           \* Supabase table users: the usernames; the row id is its index
    clients          \* the browser sessions at the login form

vars == <<ss, conversations, learning_goals, rerun, shown, event, calls, hist,
          storage, documents, result, users, clients>>

NoEvent == [type |-> "none"]

\* Outcomes of the external calls of one script run.
DefaultOracle ==
    [user |-> "ok", user_level |-> "Beginner",
     plan |-> [raises |-> TRUE, lines |-> <<>>], create |-> "ok",
     explain |-> "ok", quiz |-> [kind |-> "exception", items |-> <<>>],
     update |-> "ok", explanation |-> "ok", answer |-> "ok",
     save_user |-> "ok", save_assistant |-> "ok", process |-> "ok"]

\* A script run in progress.
Running ==
    [ss |-> ss, conversations |-> conversations, learning_goals |-> learning_goals,
     rerun |-> FALSE, shown |-> "blank", calls |-> <<>>, hist |-> hist]

Log(r, c) == [r EXCEPT !.calls = Append(@, c)]
\* The run ends having rendered `screen`.
Show(r, screen) == [r EXCEPT !.shown = screen]
\* st.rerun(): the run stops here and the script runs again.
StRerun(r) == [r EXCEPT !.rerun = TRUE, !.shown = "rerunning"]
\* An exception nothing catches: Streamlit shows it; the run stops here, with
\* the sidebar selectors already rendered.
Crash(r) == [r EXCEPT !.shown = "exception"]

\* A call failed in a way that changes the state.
Fault(r) == [r EXCEPT !.hist.faults = @ + 1]
Outcome(r, outcome) == IF outcome = "ok" THEN r ELSE Fault(r)

\* ------------------------------------------------- persistence gateway
\* supabase_handler.update_goal_progress: the row's progress is set; an
\* exception leaves the table as it was.
update_goal_progress(r, goal_id, current_progress, outcome) ==
    LET r1 == Log(r, Call("update_goal_progress", NoKey, current_progress))
    IN IF outcome = "ok"
       THEN IF goal_id \in 1..Len(r1.learning_goals)
            THEN [r1 EXCEPT !.learning_goals[goal_id].progress = current_progress]
            ELSE r1
       ELSE Fault(r1)

\* supabase_handler.create_learning_goal: inserts the row and returns it, or
\* returns None when the insert reports no data.
create_learning_goal(r, total_steps, outcome) ==
    LET r1 == Log(r, Call("create_learning_goal", NoKey, total_steps))
        row == [total_steps |-> total_steps, progress |-> 0]
    IN IF outcome = "ok"
       THEN [r1 EXCEPT !.learning_goals = Append(@, row),
                       !.ss.current_goal =
                           [id |-> Len(r1.learning_goals) + 1, total_steps |-> total_steps]]
       ELSE Fault([r1 EXCEPT !.ss.current_goal = NoGoal])

\* supabase_handler.save_message: one row appended to conversations.
save_message(r, role, content) ==
    [r EXCEPT !.conversations = Append(@, Msg(role, content))]

\* ------------------------------------------------------- guided session UI
\* app.py 405-414: the final-review button of the lesson-complete screen.
FinalQuizButton(r, ev, o) ==
    IF ev.type = "final_quiz"
    THEN LET r1 == Log(r, Call("generate_quiz", NoKey, 5))
             final_quiz == generate_quiz(o.quiz)
         IN IF Truthy(final_quiz)
            THEN StRerun([r1 EXCEPT !.ss.quiz_questions = final_quiz,
                                    !.hist.faults = IF final_quiz.kind = "object" THEN @ + 1 ELSE @,
                                    !.ss.current_question_index = 0,
                                    !.ss.score = 0,
                                    !.ss.quiz_mode = TRUE,
                                    !.hist.quiz_for = <<0, 0>>,
                                    !.hist.submitted = [i \in QIdx |-> -1]])
            ELSE Show(r1, "lesson_complete")
    ELSE Show(r, "lesson_complete")

\* The all-steps-done block without line 402, in_guided_session left set.
LessonCompleteKeepsSession(r, ev, o) ==
    FinalQuizButton(r, ev, o)

\* app.py 400-414: all steps are done.
LessonComplete(r, ev, o) ==
    FinalQuizButton([r EXCEPT !.ss.in_guided_session = FALSE], ev, o)

\* app.py 391-399: more steps remain; the next sub-topic is explained.
PrepareNextTopic(r, o) ==
    LET next_sub_topic == At(r.ss.lesson_plan, r.ss.lesson_step)
        level == r.ss.user_info.knowledge_level
        r1 == Outcome(Log(r, Call("explain_sub_topic", level, next_sub_topic)), o.explain)
        explanation == Explanation(next_sub_topic, level, o.explain)
    IN StRerun([r1 EXCEPT !.ss.messages = Append(@, Msg("assistant", explanation)),
                          !.ss.step_phase = "teaching",
                          !.ss.current_question_index = 0])

\* app.py 382-414: the block that runs once the mini-quiz index is past the
\* last question.
MiniQuizFinished(r, ev, o) ==
    LET r1 == [r EXCEPT !.ss.lesson_step = @ + 1]
        goal_info == r1.ss.current_goal
        r2 == IF goal_info.id # 0
              THEN update_goal_progress(r1, goal_info.id, r1.ss.lesson_step, o.update)
              ELSE r1
    IN IF goal_info.id # 0 /\ o.update = "exception"
       THEN Crash(r2)
       ELSE IF r2.ss.lesson_step < Len(r2.ss.lesson_plan)
            THEN PrepareNextTopic(r2, o)
            ELSE LessonComplete(r2, ev, o)

\* app.py 360-376: feedback on the stored answer of question `index`.
MiniFeedback(r, index, q, o) ==
    LET user_answer == r.ss.mini_user_answer[index]
    IN IF user_answer = q.correct_answer
       THEN [r EXCEPT !.ss.mini_feedback_given = @ \cup {index}]
       ELSE IF index \notin r.ss.mini_feedback_given
            THEN LET r1 == Log(r, Call("generate_explanation",
                                       r.ss.user_info.knowledge_level, index))
                 IN [r1 EXCEPT !.ss.mini_feedback_given = @ \cup {index}]
            ELSE r

\* app.py 353-359: the answer form of question `index`.
MiniForm(r, index, ev) ==
    IF ev.type = "submit_mini"
    THEN StRerun([r EXCEPT !.ss.mini_user_answer[index] = ev.answer,
                           !.ss.mini_answer_submitted = @ \cup {index},
                           !.hist.submitted[index] = ev.answer])
    ELSE Show(r, "mini_form")

\* app.py 343-414: the quizzing phase of a step.
QuizzingPhase(r, ev, o) ==
    LET index == r.ss.current_question_index
        questions == r.ss.quiz_questions
        total_questions == PyLen(questions)
    IN IF index < total_questions
       THEN IF questions.kind # "list"
            THEN Crash(r)       \* questions[index] of a JSON object: KeyError
            ELSE LET q == At(questions.items, index)
                 IN IF index \notin r.ss.mini_answer_submitted
                    THEN MiniForm(r, index, ev)
                    ELSE LET r1 == MiniFeedback(r, index, q, o)
                         IN IF ev.type = "continue"
                            THEN StRerun([r1 EXCEPT !.ss.current_question_index = @ + 1])
                            ELSE Show(r1, "mini_feedback")
       ELSE MiniQuizFinished(r, ev, o)

\* app.py 330-340: the teaching phase; the button asks for the mini-quiz.
TeachingPhase(r, ev, o) ==
    IF ev.type = "ready_quiz"
    THEN LET r1 == Log(r, Call("generate_quiz", NoKey, 2))
             quiz == generate_quiz(o.quiz)
         IN IF Truthy(quiz)
            THEN StRerun([r1 EXCEPT !.ss.quiz_questions = quiz,
                                    !.hist.faults = IF quiz.kind = "object" THEN @ + 1 ELSE @,
                                    !.ss.current_question_index = 0,
                                    !.ss.step_phase = "quizzing",
                                    !.hist.quiz_for = <<r.hist.sessions, r.ss.lesson_step>>,
                                    !.hist.submitted = [i \in QIdx |-> -1]])
            ELSE Show(r1, "teaching")
    ELSE Show(r, "teaching")

\* app.py 326-327: step_phase is created on the first guided render only.
InitStepPhase(r) ==
    IF r.ss.step_phase = NoKey THEN [r EXCEPT !.ss.step_phase = "teaching"] ELSE r

\* app.py 301-414.
GuidedSessionUI(r0, ev, o) ==
    LET r == InitStepPhase(r0)
    IN IF r.ss.step_phase = "teaching" THEN TeachingPhase(r, ev, o)
       ELSE IF r.ss.step_phase = "quizzing" THEN QuizzingPhase(r, ev, o)
       ELSE Show(r, "guided")

\* ------------------------------------------------------------- final quiz UI
\* app.py 280-283: the answer form of question `index` of the final quiz.
QuizForm(r, index, ev) ==
    IF ev.type = "submit_final"
    THEN StRerun([r EXCEPT !.ss.user_answer[index] = ev.answer,
                           !.ss.answer_submitted = @ \cup {index},
                           !.hist.submitted[index] = ev.answer])
    ELSE Show(r, "quiz_form")

\* The feedback block scoring a correct answer on every render.
QuizFeedbackScoresEveryRender(r, index, q, o) ==
    LET user_answer == r.ss.user_answer[index]
        first == index \notin r.ss.feedback_given
        r1 == IF user_answer = q.correct_answer
              THEN [r EXCEPT !.ss.score = @ + 1]
              ELSE IF first
                   THEN Log(r, Call("generate_explanation",
                                    r.ss.user_info.knowledge_level, index))
                   ELSE r
    IN [r1 EXCEPT !.ss.feedback_given = @ \cup {index}]

\* app.py 284-295: the stored answer of question `index` is judged; the
\* first render of the feedback scores it or asks for an explanation.
QuizFeedback(r, index, q, o) ==
    LET user_answer == r.ss.user_answer[index]
        first == index \notin r.ss.feedback_given
        r1 == IF user_answer = q.correct_answer
              THEN IF first THEN [r EXCEPT !.ss.score = @ + 1] ELSE r
              ELSE IF first
                   THEN Log(r, Call("generate_explanation",
                                    r.ss.user_info.knowledge_level, index))
                   ELSE r
    IN [r1 EXCEPT !.ss.feedback_given = @ \cup {index}]

\* app.py 271-299: the comprehensive quiz, shown while quiz_mode is set.
QuizUI(r, ev, o) ==
    LET index == r.ss.current_question_index
        questions == r.ss.quiz_questions
        total_questions == PyLen(questions)
    IN IF index < total_questions
       THEN IF questions.kind # "list"
            THEN Crash(r)       \* questions[index] of a JSON object: KeyError
            ELSE LET q == At(questions.items, index)
                 IN IF index \notin r.ss.answer_submitted
                    THEN QuizForm(r, index, ev)
                    ELSE LET r1 == QuizFeedback(r, index, q, o)
                         IN IF ev.type = "next_question"
                            THEN StRerun([r1 EXCEPT !.ss.current_question_index = @ + 1])
                            ELSE Show(r1, "quiz_feedback")
       ELSE IF ev.type = "end_session"
            THEN StRerun([r EXCEPT !.ss.in_guided_session = FALSE,
                                   !.ss.quiz_mode = FALSE,
                                   !.ss.messages = <<>>])
            ELSE Show(r, "quiz_complete")

\* ------------------------------------------------- lobby and free-form chat
\* app.py 417-438: the guided-learning lobby and its Start Guided Session
\* button.
GuidedLobby(r, ev, o) ==
    IF ev.type = "start_guided"
    THEN IF ev.topic /\ ev.goal
         THEN LET r1 == Log(r, Call("generate_lesson_plan", NoKey, 0))
                  plan == generate_lesson_plan(o.plan)
              IN IF plan # <<>>
                 THEN IF o.create = "exception"
                      THEN Crash(Log(r1, Call("create_learning_goal", NoKey, Len(plan))))
                      ELSE LET r2 == create_learning_goal(r1, Len(plan), o.create)
                               level == r2.ss.user_info.knowledge_level
                               first_sub_topic == At(plan, 0)
                               explanation == Explanation(first_sub_topic, level, o.explain)
                               r3 == Outcome(Log(r2, Call("explain_sub_topic", level,
                                                          first_sub_topic)), o.explain)
                           IN StRerun([r3 EXCEPT
                                  !.ss.lesson_plan = plan,
                                  !.ss.in_guided_session = TRUE,
                                  !.ss.lesson_step = 0,
                                  !.ss.messages = <<Msg("assistant", Intro),
                                                    Msg("assistant", explanation)>>,
                                  !.hist.sessions = @ + 1])
                 ELSE Show(r1, "lobby")
         ELSE Show(r, "lobby")
    ELSE Show(r, "lobby")

\* app.py 440-450: General Q&A.
GeneralQA(r, ev, o) ==
    IF ev.type = "chat"
    THEN LET level == r.ss.current_session_level
             r1 == [r EXCEPT !.ss.messages = Append(@, Msg("user", UserText)),
                             !.hist.chats = @ + 1]
             r2 == Outcome(Log(r1, Call("generate_topic_answer", level, 0)), o.answer)
             response == Answer(o.answer)
             r3 == save_message(r2, "user", UserText)
             r4 == save_message(r3, "assistant", response)
         IN IF o.save_user = "exception" THEN Crash(Fault(r2))
            ELSE IF o.save_assistant = "exception" THEN Crash(Fault(r3))
            ELSE Show([r4 EXCEPT !.ss.messages = Append(@, Msg("assistant", response))],
                      "qa")
    ELSE Show(r, "qa")

\* app.py process_file: True when the document is ingested or reported as a
\* duplicate, False on any other failure.
process_file(outcome) == outcome \in {"ok", "duplicate"}

\* app.py 467-473: a question about the processed document.  generate_answer
\* raises when the query embedding or the search fails, and returns the
\* error string when the model call fails.
AskDocument(r, o) ==
    LET level == r.ss.current_session_level
        r1 == [r EXCEPT !.ss.messages = Append(@, Msg("user", UserText)),
                        !.hist.chats = @ + 1]
        r2 == Outcome(Log(r1, Call("generate_answer", level, 0)), o.answer)
        response == Answer(o.answer)
        r3 == save_message(r2, "user", UserText)
        r4 == save_message(r3, "assistant", response)
    IN IF o.answer = "exception" THEN Crash(r2)
       ELSE IF o.save_user = "exception" THEN Crash(Fault(r2))
       ELSE IF o.save_assistant = "exception" THEN Crash(Fault(r3))
       ELSE Show([r4 EXCEPT !.ss.messages = Append(@, Msg("assistant", response))],
                 "doc")

\* A Study a Document page that takes every upload for processed, whatever
\* process_file returned.
StudyDocumentMarksEveryUpload(r, ev, o) ==
    LET r0 == IF ev.type = "upload" THEN [r EXCEPT !.ss.uploaded_file = ev.file] ELSE r
        uploaded_file == r0.ss.uploaded_file
        pending == uploaded_file # NoKey /\ uploaded_file # r0.ss.processed_file
        r1 == IF pending THEN Log(r0, Call("process_file", NoKey, 0)) ELSE r0
    IN IF pending
       THEN StRerun([r1 EXCEPT !.ss.processed_file = uploaded_file,
                               !.ss.messages = <<>>])
       ELSE IF ev.type = "ask_doc"
            THEN IF r1.ss.processed_file = NoKey THEN Show(r1, "doc")
                 ELSE AskDocument(r1, o)
            ELSE Show(r1, "doc")

\* app.py 452-473: Study a Document.  The uploader keeps its file while the
\* page stays on screen, so a failed ingestion is retried by every run.
StudyDocument(r, ev, o) ==
    LET r0 == IF ev.type = "upload" THEN [r EXCEPT !.ss.uploaded_file = ev.file] ELSE r
        uploaded_file == r0.ss.uploaded_file
        pending == uploaded_file # NoKey /\ uploaded_file # r0.ss.processed_file
        r1 == IF pending THEN Log(r0, Call("process_file", NoKey, 0)) ELSE r0
    IN IF pending /\ process_file(o.process)
       THEN StRerun([r1 EXCEPT !.ss.processed_file = uploaded_file,
                               !.ss.messages = <<>>])
       ELSE IF ev.type = "ask_doc"
            THEN IF r1.ss.processed_file = NoKey THEN Show(r1, "doc")
                 ELSE AskDocument(r1, o)
            ELSE Show(r1, "doc")

\* A run that does not render the file uploader (app.py 454) drops its value.
ForgetUpload(r) == [r EXCEPT !.ss.uploaded_file = NoKey]

\* app.py 415-473: neither a quiz nor a guided session is in progress.
LobbyUI(r, ev, o) ==
    IF r.ss.mode = "Guided Learning Session" THEN GuidedLobby(ForgetUpload(r), ev, o)
    ELSE IF r.ss.mode = "General Q&A" THEN GeneralQA(ForgetUpload(r), ev, o)
    ELSE StudyDocument(r, ev, o)

\* ------------------------------------------------------------ the script
\* app.py 251-252.
InitSessionLevel(r) ==
    IF r.ss.current_session_level = NoKey
    THEN [r EXCEPT !.ss.current_session_level = "Intermediate"]
    ELSE r

\* app.py 254-257: the persisted history replaces an empty transcript.
LoadChatHistory(r) ==
    IF r.ss.messages = <<>>
    THEN LET r1 == Log(r, Call("get_chat_history", NoKey, 0))
         IN IF r1.conversations # <<>>
            THEN [r1 EXCEPT !.ss.messages = r1.conversations]
            ELSE r1
    ELSE r

\* app.py 259-266: the sidebar selectors write the widgets' values.
Sidebar(r, ev) ==
    [r EXCEPT !.ss.mode = IF ev.type = "mode" THEN ev.mode ELSE @,
              !.ss.current_session_level = IF ev.type = "level" THEN ev.level ELSE @]

\* app.py 270-473: MAIN UI CONTROLLER.
Controller(r, ev, o) ==
    IF r.ss.quiz_mode THEN QuizUI(ForgetUpload(r), ev, o)
    ELSE IF r.ss.in_guided_session THEN GuidedSessionUI(ForgetUpload(r), ev, o)
    ELSE LobbyUI(r, ev, o)

\* app.py 246-473: the script once a user is logged in.
MainApp(r, ev, o) ==
    Controller(Sidebar(LoadChatHistory(InitSessionLevel(r)), ev), ev, o)

\* app.py 183-244: the home page and the login form.
Onboarding(r, ev, o) ==
    IF ev.type = "login"
    THEN StRerun([r EXCEPT !.ss.show_login = TRUE])
    ELSE IF r.ss.show_login
         THEN IF ev.type = "start_session" /\ ev.username
              THEN IF o.user = "ok"
                   THEN StRerun([r EXCEPT !.ss.user_info =
                                    [id |-> 1, knowledge_level |-> o.user_level]])
                   ELSE Show(r, "login_form")
              ELSE Show(r, "login_form")
         ELSE Show(r, "home")

\* One run of app.py, top to bottom, with the widget event `ev` (NoEvent for
\* a rerun) and the outcomes `o` of the external calls.
Script(r, ev, o) ==
    IF r.ss.user_info = NoUser THEN Onboarding(r, ev, o) ELSE MainApp(r, ev, o)

\* One script run handles the widget event `ev`: what the run leaves behind.
Commit(r, ev) ==
    /\ ss' = r.ss
    /\ conversations' = r.conversations
    /\ learning_goals' = r.learning_goals
    /\ rerun' = r.rerun
    /\ shown' = r.shown
    /\ calls' = r.calls
    /\ hist' = r.hist
    /\ event' = IF ~r.rerun THEN "none"
                ELSE IF ev.type = "none" THEN event ELSE ev.type

Handle(ev, o) ==
    /\ \E r \in {Script(Running, ev, o)} : Commit(r, ev)
    /\ UNCHANGED <<storage, documents, result, users, clients>>

\* ------------------------------------------------------------------- Init
\* app.py 163-180: the session state of a new session, the home page shown.
InitialSessionState ==
    [user_info |-> NoUser, messages |-> <<>>, mode |-> "Guided Learning Session",
     processed_file |-> NoKey, uploaded_file |-> NoKey, in_guided_session |-> FALSE, lesson_plan |-> <<>>,
     lesson_step |-> 0, quiz_mode |-> FALSE, quiz_questions |-> NoneQuiz,
     current_question_index |-> 0, score |-> 0, current_goal |-> NoGoal,
     show_login |-> FALSE, current_session_level |-> NoKey, step_phase |-> NoKey,
     mini_answer_submitted |-> {}, mini_user_answer |-> [i \in QIdx |-> -1],
     mini_feedback_given |-> {},
     answer_submitted |-> {}, user_answer |-> [i \in QIdx |-> -1],
     feedback_given |-> {}]

\* What earlier sessions of the user left in the conversations table.
StoredHistories == {<<>>}

Init ==
    /\ ss = InitialSessionState
    /\ conversations \in StoredHistories
    /\ learning_goals = <<>>
    /\ rerun = FALSE
    /\ shown = "home"
    /\ event = "none"
    /\ calls = <<>>
    /\ hist = [sessions |-> 0, chats |-> 0, faults |-> 0, 
               quiz_for |-> <<0, 0>>, submitted |-> [i \in QIdx |-> -1]]
    /\ storage = {}
    /\ documents = <<>>
    /\ result = [fn |-> "none", args |-> <<>>, out |-> <<>>]
    /\ users = <<>>
    /\ clients = [c \in Clients |-> AtLoginForm]

\* ---------------------------------------------------------------- actions
LoggedIn == ss.user_info # NoUser
\* The outcomes update_goal_progress can still have.
\* The outcomes an external call can still have: a failure that changes the
\* state counts against MaxFaults.
MayFail(outcomes) == IF hist.faults < MaxFaults THEN outcomes ELSE {"ok"}
UpdateOutcomes == MayFail({"ok", "exception"})
GenOutcomes == MayFail({"ok", "error"})
QuizOutcomes ==
    IF hist.faults < MaxFaults THEN QuizResponses
    ELSE {q \in QuizResponses : q.kind # "object"}
Idle == ~rerun
\* The levels the user picks in the sidebar.
SelectedLevels == {"Intermediate", "Expert"}
\* The next run reaches the mini-quiz-finished block (app.py 382-414), the
\* only place a rerun calls update_goal_progress and explain_sub_topic.
FinishedBlockNext ==
    /\ ss.in_guided_session /\ ~ss.quiz_mode /\ ss.step_phase = "quizzing"
    /\ ss.current_question_index >= PyLen(ss.quiz_questions)
RerunUpdateOutcomes == IF FinishedBlockNext THEN UpdateOutcomes ELSE {"ok"}
RerunExplainOutcomes == IF FinishedBlockNext THEN GenOutcomes ELSE {"ok"}
ProcessOutcomes == {"ok", "duplicate", "error"}
Documents == {"notes.pdf"}
\* process_file runs again in a run that finds an unprocessed upload.
RetryOutcomes ==
    IF ss.uploaded_file \notin {NoKey, ss.processed_file} THEN ProcessOutcomes ELSE {"ok"}

\* st.rerun(): the script runs again, no widget triggered.
AutoRerun ==
    /\ rerun
    /\ \E u \in RerunUpdateOutcomes, e \in RerunExplainOutcomes, p \in RetryOutcomes :
          Handle(NoEvent, [DefaultOracle EXCEPT !.update = u, !.explain = e,
                                                !.process = p])

PressLogin ==
    /\ Idle /\ shown \in {"home", "login_form"}
    /\ Handle([type |-> "login"], DefaultOracle)

StartSession ==
    /\ Idle /\ shown = "login_form"
    /\ \E name \in BOOLEAN, u \in {"ok", "exception"}, l \in StoredLevels :
          Handle([type |-> "start_session", username |-> name],
                 [DefaultOracle EXCEPT !.user = u, !.user_level = l])

\* The sidebar selectors are rendered by every run of the main app, before
\* the controller; changing one reruns the script.  A rerun can reach the
\* mini-quiz-finished block or the feedback block, hence their outcomes.
ChangeMode ==
    /\ Idle /\ LoggedIn
    /\ \E m \in Modes \ {ss.mode}, u \in RerunUpdateOutcomes, e \in RerunExplainOutcomes :
          Handle([type |-> "mode", mode |-> m],
                 [DefaultOracle EXCEPT !.update = u, !.explain = e])

ChangeLevel ==
    /\ Idle /\ LoggedIn
    /\ \E l \in SelectedLevels \ {ss.current_session_level},
          u \in RerunUpdateOutcomes, e \in RerunExplainOutcomes, p \in RetryOutcomes :
          Handle([type |-> "level", level |-> l],
                 [DefaultOracle EXCEPT !.update = u, !.explain = e, !.process = p])

StartGuidedSession ==
    /\ Idle /\ shown = "lobby"
    /\ hist.sessions < MaxSessions
    /\ \/ \E topic \in BOOLEAN, goal \in BOOLEAN :
             /\ ~(topic /\ goal)
             /\ Handle([type |-> "start_guided", topic |-> topic, goal |-> goal],
                       DefaultOracle)
       \/ \E p \in PlanResponses :
             /\ generate_lesson_plan(p) = <<>>
             /\ Handle([type |-> "start_guided", topic |-> TRUE, goal |-> TRUE],
                       [DefaultOracle EXCEPT !.plan = p])
       \/ \E p \in PlanResponses, c \in MayFail({"ok", "no_data"}) \cup {"exception"},
             e \in GenOutcomes :
             /\ generate_lesson_plan(p) # <<>>
             /\ Handle([type |-> "start_guided", topic |-> TRUE, goal |-> TRUE],
                       [DefaultOracle EXCEPT !.plan = p, !.create = c, !.explain = e])

ReadyForQuiz ==
    /\ Idle /\ shown = "teaching"
    /\ \E q \in QuizOutcomes :
          Handle([type |-> "ready_quiz"], [DefaultOracle EXCEPT !.quiz = q])

SubmitAnswer ==
    /\ Idle /\ shown = "mini_form"
    /\ \E a \in Answers :
          Handle([type |-> "submit_mini", answer |-> a], DefaultOracle)

Continue ==
    /\ Idle /\ shown = "mini_feedback"
    /\ Handle([type |-> "continue"], DefaultOracle)

TakeFinalQuiz ==
    /\ Idle /\ shown = "lesson_complete"
    /\ \E q \in QuizOutcomes :
          Handle([type |-> "final_quiz"], [DefaultOracle EXCEPT !.quiz = q])

AskQuestion ==
    /\ Idle /\ shown = "qa"
    /\ hist.chats < MaxChats
    /\ \E a \in GenOutcomes, s1 \in MayFail({"ok", "exception"}),
          s2 \in MayFail({"ok", "exception"}) :
          Handle([type |-> "chat"],
                 [DefaultOracle EXCEPT !.answer = a, !.save_user = s1,
                                       !.save_assistant = s2])

UploadDocument ==
    /\ Idle /\ shown = "doc"
    /\ \E f \in Documents \ {ss.uploaded_file}, p \in ProcessOutcomes :
          Handle([type |-> "upload", file |-> f], [DefaultOracle EXCEPT !.process = p])

AskDocumentQuestion ==
    /\ Idle /\ shown = "doc"
    /\ hist.chats < MaxChats
    /\ \E a \in MayFail({"ok", "error", "exception"}), s1 \in MayFail({"ok", "exception"}),
          s2 \in MayFail({"ok", "exception"}), p \in RetryOutcomes :
          Handle([type |-> "ask_doc"],
                 [DefaultOracle EXCEPT !.answer = a, !.save_user = s1,
                                       !.save_assistant = s2, !.process = p])

Next ==
    \/ AutoRerun
    \/ PressLogin
    \/ StartSession
    \/ ChangeMode
    \/ ChangeLevel
    \/ StartGuidedSession
    \/ ReadyForQuiz
    \/ SubmitAnswer
    \/ Continue
    \/ TakeFinalQuiz
    \/ AskQuestion
    \/ UploadDocument
    \/ AskDocumentQuestion

Spec == Init /\ [][Next]_vars

\* ------------------------------------------------- the final review quiz
\* The quiz UI (app.py 271-299) is entered only through the handler of the
\* Take the Final Review Quiz button (405-414).  QuizSpec is the application
\* with that handler run by the click's script run, as lines 405-414 are
\* written to be run: from the lesson-complete screen the handler generates
\* the quiz and sets quiz_mode.
FinalQuizPressed ==
    /\ Idle /\ shown = "lesson_complete"
    /\ \E q \in QuizOutcomes :
          \E r \in {FinalQuizButton(
                       Sidebar(LoadChatHistory(InitSessionLevel(Running)), NoEvent),
                       [type |-> "final_quiz"], [DefaultOracle EXCEPT !.quiz = q])} :
             Commit(r, [type |-> "final_quiz"])
    /\ UNCHANGED <<storage, documents, result, users, clients>>

SubmitFinalAnswer ==
    /\ Idle /\ shown = "quiz_form"
    /\ \E a \in Answers :
          Handle([type |-> "submit_final", answer |-> a], DefaultOracle)

NextQuestion ==
    /\ Idle /\ shown = "quiz_feedback"
    /\ Handle([type |-> "next_question"], DefaultOracle)

EndSession ==
    /\ Idle /\ shown = "quiz_complete"
    /\ Handle([type |-> "end_session"], DefaultOracle)

\* The user reruns the script (the Rerun command of the Streamlit menu): no
\* widget is triggered, the page is rendered again.
Rerender ==
    /\ Idle /\ LoggedIn
    /\ \E u \in RerunUpdateOutcomes, e \in RerunExplainOutcomes, p \in RetryOutcomes :
          Handle(NoEvent, [DefaultOracle EXCEPT !.update = u, !.explain = e,
                                                !.process = p])

QuizNext ==
    \/ AutoRerun
    \/ PressLogin
    \/ StartSession
    \/ Rerender
    \/ StartGuidedSession
    \/ ReadyForQuiz
    \/ SubmitAnswer
    \/ Continue
    \/ FinalQuizPressed
    \/ SubmitFinalAnswer
    \/ NextQuestion
    \/ EndSession

QuizSpec == Init /\ [][QuizNext]_vars

\* ----------------------------------------------------------------- claims
IsGeneration(c) == c.level # NoKey
CalledFns == {calls[i].fn : i \in 1..Len(calls)}
\* The user answered every question of a mini-quiz generated for the current
\* step of the current guided session.
MiniQuizCompleted ==
    /\ hist.quiz_for = <<hist.sessions, ss.lesson_step>>
    /\ ss.quiz_questions.kind = "list"
    /\ \A i \in 0..(Len(ss.quiz_questions.items) - 1) : hist.submitted[i] # -1

\* C1: lesson_step, the value sent to update_goal_progress, advances only
\* after a mini-quiz generated for the current step in the current guided
\* session had all its questions answered by the user (stated for the runs
\* that do not follow a run aborted by an exception).
C1_ProgressOnlyAfterMiniQuiz ==
    [][(shown # "exception" /\ ss'.lesson_step = ss.lesson_step + 1)
          => MiniQuizCompleted]_vars

\* C2: the render that follows a successful Start Guided Session shows
\* TEACHING at step 0: in_guided_session, lesson_step = 0, step_phase =
\* 'teaching', and the last message is the explanation of plan[0].
C2_StartEntersTeachingAtStepZero ==
    [][(rerun /\ event = "start_guided")
         => /\ shown' = "teaching"
            /\ ss'.in_guided_session
            /\ ss'.lesson_step = 0
            /\ ss'.step_phase = "teaching"
            /\ ss'.messages # <<>>
            /\ Last(ss'.messages).role = "assistant"
            /\ Last(ss'.messages).content.sub_topic = At(ss'.lesson_plan, 0)]_vars

NonEmptyQuestionList(q) == q.kind = "list" /\ Len(q.items) > 0

\* C3: pressing Take the Final Review Quiz on the lesson-complete screen, the
\* generation returning a non-empty quiz, enters FINAL_QUIZ: quiz_mode with
\* current_question_index = 0 and score = 0.
C3_FinalQuizEntered ==
    [][\A q \in QuizResponses :
          (/\ ~rerun /\ shown = "lesson_complete"
           /\ NonEmptyQuestionList(q)
           /\ Handle([type |-> "final_quiz"], [DefaultOracle EXCEPT !.quiz = q]))
          => /\ ss'.quiz_mode
             /\ ss'.current_question_index = 0
             /\ ss'.score = 0]_vars

\* C4: a mini-quiz question shows its feedback only after the user submitted
\* an answer to that question of the current quiz, the answer judged is that
\* submission, and current_question_index is never past a question the user
\* did not answer in the current quiz.
C4_FeedbackOnlyAfterSubmission ==
    /\ shown = "mini_feedback"
          => /\ hist.submitted[ss.current_question_index] # -1
             /\ ss.mini_user_answer[ss.current_question_index]
                   = hist.submitted[ss.current_question_index]
    /\ (ss.in_guided_session /\ ss.step_phase = "quizzing")
          => \A i \in 0..(ss.current_question_index - 1) : hist.submitted[i] # -1

\* C5: the run that follows Continue on the last question of step i goes to
\* TEACHING at step i+1 (explanation of plan[i+1] appended, index reset,
\* progress i+1) when steps remain, and to DONE with progress len(plan)
\* otherwise.
C5_ContinueOnLastQuestion ==
    [][(/\ rerun /\ event = "continue"
        /\ ss.current_question_index >= PyLen(ss.quiz_questions))
         => LET i == ss.lesson_step
                id == ss.current_goal.id
            IN IF i + 1 < Len(ss.lesson_plan)
               THEN /\ ss'.in_guided_session
                    /\ ss'.lesson_step = i + 1
                    /\ ss'.step_phase = "teaching"
                    /\ ss'.current_question_index = 0
                    /\ ss'.messages = Append(ss.messages, Last(ss'.messages))
                    /\ Last(ss'.messages).content.sub_topic = At(ss.lesson_plan, i + 1)
                    /\ id # 0 => learning_goals'[id].progress = i + 1
               ELSE /\ ~ss'.in_guided_session
                    /\ shown' = "lesson_complete"
                    /\ id # 0 => learning_goals'[id].progress = Len(ss.lesson_plan)]_vars

\* C6: every value update_goal_progress writes for a goal is at most the
\* goal's total_steps and greater than the value written before.
C6_ProgressBoundedAndIncreasing ==
    [][\A id \in 1..Len(learning_goals) :
          learning_goals'[id].progress # learning_goals[id].progress
             => /\ learning_goals'[id].progress > learning_goals[id].progress
                /\ learning_goals'[id].progress <= learning_goals'[id].total_steps]_vars

\* The phases, read off the flags.
NoSession == ~ss.quiz_mode /\ ~ss.in_guided_session
LessonFinished == ss.lesson_plan # <<>> /\ ss.lesson_step >= Len(ss.lesson_plan)
InPhase(p) ==
    CASE p = "FINAL_QUIZ" ->
           ss.quiz_mode /\ ss.current_question_index < PyLen(ss.quiz_questions)
      [] p = "ENDED" ->
           ss.quiz_mode /\ ss.current_question_index >= PyLen(ss.quiz_questions)
      [] p = "TEACHING" -> ss.in_guided_session /\ ss.step_phase \in {NoKey, "teaching"}
      [] p = "MINI_QUIZZING" -> ss.in_guided_session /\ ss.step_phase = "quizzing"
      [] p = "DONE" -> NoSession /\ LessonFinished
      [] p = "LOBBY" ->
           NoSession /\ ~LessonFinished /\ ss.mode = "Guided Learning Session"
      [] p = "FREE_CHAT" ->
           NoSession /\ ~LessonFinished /\ ss.mode # "Guided Learning Session"
Phases == {"LOBBY", "TEACHING", "MINI_QUIZZING", "FINAL_QUIZ", "DONE", "ENDED", "FREE_CHAT"}

\* C7: in a logged-in session the flags put the session in exactly one
\* phase; quiz_mode and in_guided_session are never both true.
C7_ExactlyOnePhase ==
    LoggedIn => /\ Cardinality({p \in Phases : InPhase(p)}) = 1
                /\ ~(ss.quiz_mode /\ ss.in_guided_session)
C7_Witness ==
    /\ LoggedIn /\ ss.in_guided_session /\ ss.step_phase = "quizzing"
    /\ shown = "mini_feedback" /\ ss.lesson_step = 1

\* C8: Start Guided Session with an empty topic or goal, or with a plan
\* generation that raises or recovers no list item, stays in the lobby and
\* leaves in_guided_session, lesson_plan, lesson_step, current_goal and the
\* transcript as they were; with an empty topic or goal it issues no
\* generation call and no create_learning_goal call.
C8_FailedStartChangesNothing ==
    (~rerun /\ shown = "lobby")
       => \A topic \in BOOLEAN, goal \in BOOLEAN, p \in PlanResponses :
             (~topic \/ ~goal \/ p.raises \/ FindAll(p.lines, 1) = <<>>)
                => \A r \in {Script(Running,
                                    [type |-> "start_guided", topic |-> topic, goal |-> goal],
                                    [DefaultOracle EXCEPT !.plan = p])} :
                      /\ r.shown = "lobby" /\ ~r.rerun
                      /\ r.ss.in_guided_session = ss.in_guided_session
                      /\ r.ss.lesson_plan = ss.lesson_plan
                      /\ r.ss.lesson_step = ss.lesson_step
                      /\ r.ss.current_goal = ss.current_goal
                      /\ r.ss.messages = ss.messages
                      /\ r.learning_goals = learning_goals
                      /\ (~topic \/ ~goal)
                            => \A i \in 1..Len(r.calls) :
                                  /\ ~IsGeneration(r.calls[i])
                                  /\ r.calls[i].fn \notin {"generate_lesson_plan",
                                                          "create_learning_goal",
                                                          "generate_quiz"}
C8_Witness ==
    /\ shown = "lobby" /\ ~ss.in_guided_session /\ LessonFinished
    /\ "generate_lesson_plan" \in CalledFns

\* C9: a quiz generation that fails or yields no non-empty question list
\* does not advance the phase: step_phase stays 'teaching' (quiz_mode stays
\* false on the lesson-complete screen) and quiz_questions,
\* current_question_index and score are unchanged.
C9_FailedQuizDoesNotAdvance ==
    [][\A q \in QuizResponses :
          (/\ ~rerun /\ ~NonEmptyQuestionList(q)
           /\ \/ shown = "teaching" /\ Handle([type |-> "ready_quiz"],
                                              [DefaultOracle EXCEPT !.quiz = q])
              \/ shown = "lesson_complete" /\ Handle([type |-> "final_quiz"],
                                                     [DefaultOracle EXCEPT !.quiz = q]))
          => /\ ss'.step_phase = ss.step_phase
             /\ ss'.quiz_mode = ss.quiz_mode
             /\ ss'.quiz_questions = ss.quiz_questions
             /\ ss'.current_question_index = ss.current_question_index
             /\ ss'.score = ss.score]_vars

\* C10: once the user has selected another knowledge level, every generation
\* call is issued with the selected level.
C10_GenerationsUseSelectedLevel ==
    ss.current_session_level \notin {NoKey, "Intermediate"}
       => \A i \in 1..Len(calls) :
             IsGeneration(calls[i]) => calls[i].level = ss.current_session_level

\* The questions of the stored quiz to which the user submitted, in this
\* quiz, the correct answer.
CorrectSubmissions ==
    {i \in 0..(Len(ss.quiz_questions.items) - 1) :
        hist.submitted[i] = At(ss.quiz_questions.items, i).correct_answer}

\* ------------------------------------------------- document ingestion
\* IngestSpec follows process_file into the storage bucket and the documents
\* table; Spec keeps only what process_file returns.
Library == {"a.pdf", "b.pdf"}       \* the files the user has at hand
IngestOracles ==
    [upload : {"ok", "exception"}, chunks : 0..MaxChunks,
     embed : {"ok", "failed"}, store : {"ok", "exception", "duplicate"}]

\* supabase_handler.store_embeddings: one row per (chunk, embedding) pair.
store_embeddings(file_name, text_chunks, embeddings) ==
    [i \in 1..(IF text_chunks < embeddings THEN text_chunks ELSE embeddings)
        |-> [file_name |-> file_name, chunk |-> i, embedding |-> i]]

\* app.py process_file, call by call: upload_pdf (upsert, so a stored name
\* is overwritten), extract_text and textwrap.wrap (the number of chunks),
\* generate_embeddings ([] on failure), store_embeddings (batch insert).
\* `outcome` is what process_file makes of it: "duplicate" is an exception
\* whose text holds "Duplicate".
process_file_calls(db, original_filename, o) ==
    IF o.upload # "ok" THEN [db EXCEPT !.outcome = "error"]
    ELSE LET db1 == [db EXCEPT !.storage = @ \cup {original_filename}]
             embeddings == IF o.embed = "ok" THEN o.chunks ELSE 0
             rows == store_embeddings(original_filename, o.chunks, embeddings)
         IN IF o.store = "ok"
            THEN [db1 EXCEPT !.documents = @ \o rows, !.outcome = "ok"]
            ELSE [db1 EXCEPT !.outcome = IF o.store = "duplicate" THEN "duplicate"
                                         ELSE "error"]

Database == [storage |-> storage, documents |-> documents, outcome |-> "none"]

\* A script run of the Study a Document page that calls process_file.
Ingest(ev, file, o) ==
    \E db \in {process_file_calls(Database, file, o)} :
       /\ \E r \in {Script(Running, ev, [DefaultOracle EXCEPT !.process = db.outcome])} :
             Commit(r, ev)
       /\ storage' = db.storage
       /\ documents' = db.documents
       /\ result' = [fn |-> "process_file",
                     args |-> [original_filename |-> file, o |-> o,
                               stored |-> file \in storage],
                     out |-> db.outcome]
       /\ UNCHANGED <<users, clients>>

\* The user picks a file in the uploader (app.py 454-460).
IngestUpload ==
    /\ Idle /\ shown = "doc"
    /\ Len(documents) + MaxChunks <= MaxRows
    /\ \E f \in Library \ {ss.uploaded_file, ss.processed_file}, o \in IngestOracles :
          Ingest([type |-> "upload", file |-> f], f, o)

\* A rerun of the page while the uploader holds a file not yet processed.
IngestRetry ==
    /\ Idle /\ shown = "doc"
    /\ Len(documents) + MaxChunks <= MaxRows
    /\ ss.uploaded_file \notin {NoKey, ss.processed_file}
    /\ \E o \in IngestOracles : Ingest(NoEvent, ss.uploaded_file, o)

\* The browser page is reloaded: a new session, the stored data stay.
NewSession ==
    /\ Idle /\ LoggedIn
    /\ ss' = InitialSessionState
    /\ shown' = "home" /\ calls' = <<>>
    /\ UNCHANGED <<conversations, learning_goals, rerun, event, hist, storage, documents,
                   result, users, clients>>

IngestNext ==
    \/ AutoRerun
    \/ PressLogin
    \/ StartSession
    \/ ChangeMode
    \/ IngestUpload
    \/ IngestRetry
    \/ NewSession

IngestSpec == Init /\ [][IngestNext]_vars

\* C13: ingesting a document, also one whose name is already stored, leaves
\* exactly one set of stored chunks for that name: no (file_name, chunk) row
\* of the documents table is stored twice.
C13_OneChunkSetPerName ==
    \A i, j \in 1..Len(documents) : documents[i] = documents[j] => i = j

\* --------------------------------------------- functions on their own
\* FnSpec calls the functions below with every input and every outcome of
\* their external calls, and keeps the call and what it returned in `result`.
ChunkLists ==
    UNION {[1..n -> 1..MaxChunks] : n \in 0..MaxChunks}
SearchOutcomes ==
    {[status |-> "exception", chunks |-> <<>>]}
       \cup {[status |-> "ok", chunks |-> c] : c \in ChunkLists}
AnswerOracles ==
    [embed : {"ok", "failed"}, search : SearchOutcomes, model : {"ok", "exception"}]

\* The prompt of generate_answer, by the values formatted into it.
AnswerPrompt(query, knowledge_level, context) ==
    [query |-> query, knowledge_level |-> knowledge_level, context |-> context]
\* response.text of a model call with `prompt`.
ResponseText(prompt) == [kind |-> "answer", prompt |-> prompt]
ErrorText == [kind |-> "error", prompt |-> NoKey]
Raised == [raised |-> TRUE, model_calls |-> <<>>, text |-> NoKey]

\* An earlier policy: an apology instead of a model call when nothing is found.
generate_answer_early_return(query, knowledge_level, file_name, o) ==
    IF o.embed # "ok" \/ o.search.status = "exception" THEN Raised
    ELSE IF o.search.chunks = <<>>
         THEN [raised |-> FALSE, model_calls |-> <<>>, text |-> [kind |-> "not_found", prompt |-> NoKey]]
         ELSE LET prompt == AnswerPrompt(query, knowledge_level, o.search.chunks)
              IN [raised |-> FALSE, model_calls |-> <<prompt>>,
                  text |-> IF o.model = "ok" THEN ResponseText(prompt) ELSE ErrorText]

\* app.py generate_answer.  generate_embeddings returns [] when the embedding
\* call fails, so [0] raises; semantic_search raises what the database
\* raises; the context joins the chunks in retrieval order; the model call
\* is the only guarded one.
generate_answer(query, knowledge_level, file_name, o) ==
    IF o.embed # "ok" THEN Raised
    ELSE IF o.search.status = "exception" THEN Raised
    ELSE LET relevant_chunks == o.search.chunks
             context == relevant_chunks
             prompt == AnswerPrompt(query, knowledge_level, context)
         IN [raised |-> FALSE, model_calls |-> <<prompt>>,
             text |-> IF o.model = "ok" THEN ResponseText(prompt) ELSE ErrorText]

CallGenerateAnswer ==
    /\ result.fn = "none"
    /\ \E level \in Levels, file \in Library, o \in AnswerOracles :
          result' = [fn |-> "generate_answer",
                     args |-> [knowledge_level |-> level, file_name |-> file, o |-> o],
                     out |-> generate_answer(UserText, level, file, o)]
    /\ UNCHANGED <<ss, conversations, learning_goals, rerun, shown, event, calls, hist,
                   storage, documents, users, clients>>

\* The text of a lesson-plan response, character by character: a digit, a
\* dot, a blank, a line break, a letter.
Chars == {"d", ".", " ", "\n", "x"}
Texts == UNION {[1..n -> Chars] : n \in 0..MaxText}
\* The character classes of the pattern: \d, \s, the dot; and the blank.
InClass(c, class) ==
    CASE class = "\\d" -> c = "d"
      [] class = "\\s" -> c \in {" ", "\n"}
      [] class = "." -> c # "\n"
      [] class = " " -> c = " "

\* The first position from i on whose character is not of the class (Len + 1
\* when there is none): where a greedy class* that starts at i stops.
SpanEnd(text, i, class) ==
    CHOOSE j \in i..(Len(text) + 1) :
       /\ j = Len(text) + 1 \/ ~InClass(text[j], class)
       /\ \A k \in i..(j - 1) : InClass(text[k], class)

\* \d+\. matches at i.
MatchAt(text, i) ==
    /\ i <= Len(text) /\ InClass(text[i], "\\d")
    /\ LET j == SpanEnd(text, i, "\\d") IN j <= Len(text) /\ text[j] = "."

RECURSIVE re_findall(_, _)
\* re.findall(r'\d+\.\s*(.*)', text) from position p on: the leftmost match,
\* its group (\s* runs over line breaks, .* stops at one), then the rest.
re_findall(text, p) ==
    IF \A i \in p..Len(text) : ~MatchAt(text, i) THEN <<>>
    ELSE LET i == CHOOSE i \in p..Len(text) :
                     MatchAt(text, i) /\ \A h \in p..(i - 1) : ~MatchAt(text, h)
             dot == SpanEnd(text, i, "\\d")
             start == SpanEnd(text, dot + 1, "\\s")
             end == SpanEnd(text, start, ".")
         IN <<SubSeq(text, start, end - 1)>> \o re_findall(text, end)

TextResponses == {[raises |-> TRUE, text |-> <<>>]}
                   \cup {[raises |-> FALSE, text |-> t] : t \in Texts}

\* app.py generate_lesson_plan on the text of the response: the list
\* re.findall gives, None when that list is empty or the call raises.
generate_lesson_plan_text(resp) ==
    IF resp.raises THEN [none |-> TRUE, plan |-> <<>>]
    ELSE LET plan == re_findall(resp.text, 1)
         IN IF plan # <<>> THEN [none |-> FALSE, plan |-> plan]
            ELSE [none |-> TRUE, plan |-> <<>>]

CallGenerateLessonPlan ==
    /\ result.fn = "none"
    /\ \E resp \in TextResponses :
          result' = [fn |-> "generate_lesson_plan", args |-> resp,
                     out |-> generate_lesson_plan_text(resp)]
    /\ UNCHANGED <<ss, conversations, learning_goals, rerun, shown, event, calls, hist,
                   storage, documents, users, clients>>

\* utils/web_scraper.py.  A text is known by what it is and by its length.
ScrapeLimit == 2000
NoUrl == "None"
EmptyText == [kind |-> "empty", len |-> 0]
NoResultsText == [kind |-> "Could not find any web results.", len |-> 31]
ScrapeOracles ==
    [search : {"exception", "no_results", "found"},
     download : {"ok", "exception"}, parse : {"ok", "exception"},
     text : 0..MaxArticle]

\* article.text[:2000]
Truncate(len, limit) == IF len < limit THEN len ELSE limit

search_and_scrape(query, o) ==
    IF o.search = "exception" THEN [text |-> EmptyText, url |-> NoUrl]
    ELSE IF o.search = "no_results" THEN [text |-> NoResultsText, url |-> NoUrl]
    ELSE IF o.download = "exception" \/ o.parse = "exception"
         THEN [text |-> EmptyText, url |-> NoUrl]
    ELSE IF o.text = 0 THEN [text |-> EmptyText, url |-> NoUrl]
    ELSE [text |-> [kind |-> "article", len |-> Truncate(o.text, ScrapeLimit)],
          url |-> "href"]

CallSearchAndScrape ==
    /\ result.fn = "none"
    /\ \E o \in ScrapeOracles :
          result' = [fn |-> "search_and_scrape", args |-> o,
                     out |-> search_and_scrape(UserText, o)]
    /\ UNCHANGED <<ss, conversations, learning_goals, rerun, shown, event, calls, hist,
                   storage, documents, users, clients>>

FnNext ==
    \/ CallGenerateAnswer
    \/ CallGenerateLessonPlan
    \/ CallSearchAndScrape

FnSpec == Init /\ [][FnNext]_vars

\* C14: when retrieval returns no chunks, generate_answer does not return
\* early: it issues exactly one model call, with a prompt whose context is
\* empty, and returns what that call gives: its text, or the error message
\* of the except branch when the call itself fails.
C14_EmptyRetrievalFallsThrough ==
    (/\ result.fn = "generate_answer"
     /\ result.args.o.embed = "ok"
     /\ result.args.o.search = [status |-> "ok", chunks |-> <<>>])
       => /\ ~result.out.raised
          /\ Len(result.out.model_calls) = 1
          /\ result.out.model_calls[1] =
                 AnswerPrompt(UserText, result.args.knowledge_level, <<>>)
          /\ result.out.text = IF result.args.o.model = "ok"
                               THEN ResponseText(result.out.model_calls[1])
                               ELSE ErrorText
C14_Witness ==
    /\ result.fn = "generate_answer"
    /\ result.args.o.search = [status |-> "ok", chunks |-> <<>>]
    /\ result.out.text.kind = "answer"
    /\ result.out.text.prompt.context = <<>>

\* C15: no failure of an external call escapes the handling of a chat input
\* in Study a Document or General Q&A: once the run that handled the input
\* is over, the user's message in the transcript is followed by a reply.
C15_ChatInputAlwaysAnswered ==
    (Idle /\ hist.chats > 0 /\ ss.messages # <<>>)
       => Last(ss.messages).role = "assistant"

\* The positions where a line of the text starts.
LineStarts(text) == {s \in 1..Len(text) : s = 1 \/ text[s - 1] = "\n"}
\* The line that starts at s is a numbered list line "k. X".
NumberedLine(text, s) == MatchAt(text, SpanEnd(text, s, " "))
\* The X of the numbered line that starts at s.
ItemText(text, s) ==
    LET dot == SpanEnd(text, SpanEnd(text, s, " "), "\\d")
        start == SpanEnd(text, dot + 1, " ")
    IN SubSeq(text, start, SpanEnd(text, start, ".") - 1)
RECURSIVE ItemsFrom(_, _)
ItemsFrom(text, s) ==
    IF s > Len(text) THEN <<>>
    ELSE <<ItemText(text, s)>> \o ItemsFrom(text, SpanEnd(text, s, ".") + 1)
\* The text consists of lines "k. X", each with an X.
NumberedList(text) ==
    /\ text # <<>> /\ Last(text) # "\n"
    /\ \A s \in LineStarts(text) :
          NumberedLine(text, s) /\ ItemText(text, s) # <<>>

\* C16: from a response that consists of lines "k. X", generate_lesson_plan
\* recovers the X texts in order, one per line; and it returns None exactly
\* when the response has no numbered list line or the model call fails.
C16_PlanIsTheNumberedLines ==
    result.fn = "generate_lesson_plan"
       => /\ (~result.args.raises /\ NumberedList(result.args.text))
                => result.out = [none |-> FALSE, plan |-> ItemsFrom(result.args.text, 1)]
          /\ result.out.none
                <=> \/ result.args.raises
                    \/ \A s \in LineStarts(result.args.text) :
                          ~NumberedLine(result.args.text, s)

\* C17: from TEACHING or MINI_QUIZZING, selecting General Q&A or Study a
\* Document in the sidebar makes the next render show that mode's free-chat
\* page.
C17_ModeChangeLeavesGuidedSession ==
    [][(/\ Idle /\ (InPhase("TEACHING") \/ InPhase("MINI_QUIZZING"))
        /\ ss'.mode # ss.mode
        /\ ss'.mode \in {"General Q&A", "Study a Document"})
          => shown' = (IF ss'.mode = "General Q&A" THEN "qa" ELSE "doc")]_vars

\* The search found a page and its article was downloaded and parsed to a
\* non-empty text.
ScrapeSucceeded(o) ==
    o.search = "found" /\ o.download = "ok" /\ o.parse = "ok" /\ o.text > 0

\* C18: search_and_scrape returns the article text, cut to at most 2000
\* characters, with its URL on success, and the empty string with None for
\* every failure: no search result, no article text, any exception.
C18_ScrapeReturnsTextOrEmpty ==
    result.fn = "search_and_scrape"
       => IF ScrapeSucceeded(result.args)
          THEN /\ result.out.url = "href"
               /\ result.out.text.kind = "article"
               /\ result.out.text.len <= ScrapeLimit
          ELSE result.out = [text |-> EmptyText, url |-> NoUrl]

\* The message is the result of a generation.
Generated(m) == m.content.kind \in {"explanation", "answer", "error"}

\* C19: every message appended to the transcript as the result of a
\* generation (guided explanations, General Q&A and document answers) is
\* also in the persisted chat log with the same role and content, and the
\* log keeps the order of the transcript, each user message before its reply.
C19_GeneratedMessagesArePersisted ==
    Idle =>
      \A i \in 1..Len(ss.messages) :
         Generated(ss.messages[i]) =>
            \E j \in 1..Len(conversations) :
               /\ conversations[j] = ss.messages[i]
               /\ (i > 1 /\ ss.messages[i - 1].role = "user")
                     => (j > 1 /\ conversations[j - 1] = ss.messages[i - 1])

\* C20: for every mini-quiz question answered incorrectly, at every lesson
\* step, exactly one wrong-answer explanation is generated: the run that
\* first renders the question's feedback issues one generate_explanation
\* call, and a later re-render of that feedback issues none.
C20_OneExplanationPerWrongAnswer ==
    [][LET index == ss'.current_question_index
           explanations ==
              Cardinality({i \in 1..Len(calls') : calls'[i].fn = "generate_explanation"})
       IN (/\ shown' = "mini_feedback"
           /\ ss'.mini_user_answer[index]
                 # At(ss'.quiz_questions.items, index).correct_answer)
             => /\ (rerun /\ event \in {"ready_quiz", "submit_mini", "continue"})
                      => explanations = 1
                /\ (Idle /\ shown = "mini_feedback") => explanations = 0]_vars

\* C11: in the final quiz the score never exceeds the number of questions
\* the user answered correctly in this quiz (so it is at most N and a
\* question is scored at most once however often it is rendered), and on the
\* Quiz complete screen the score equals that number.
C11_ScoreCountsCorrectSubmissions ==
    (ss.quiz_mode /\ ss.quiz_questions.kind = "list")
       => /\ ss.score <= Cardinality(CorrectSubmissions)
          /\ ss.score <= Len(ss.quiz_questions.items)
          /\ shown = "quiz_complete" => ss.score = Cardinality(CorrectSubmissions)
C11_Witness ==
    /\ ss.quiz_mode /\ shown = "quiz_complete"
    /\ Len(ss.quiz_questions.items) = 2 /\ ss.score = 1

SelectUser(username) ==
    IF \E i \in 1..Len(users) : users[i] = username
    THEN CHOOSE i \in 1..Len(users) :
            users[i] = username /\ \A j \in 1..(i - 1) : users[j] # username
    ELSE 0

OtherVars ==
    <<ss, conversations, learning_goals, rerun, shown, event, calls, hist,
      storage, documents, result>>

\* Start Session pressed: get_or_create_user runs its select.
SelectStep(c) ==
    /\ clients[c].pc = "form"
    /\ \E u \in Usernames :
          clients' = [clients EXCEPT ![c] = [pc |-> "selected", username |-> u,
                                             data |-> SelectUser(u), user_id |-> 0]]
    /\ UNCHANGED <<users, OtherVars>>

\* `if user.data: return user.data[0]`
ReturnStep(c) ==
    /\ clients[c].pc = "selected" /\ clients[c].data # 0
    /\ clients' = [clients EXCEPT ![c].pc = "done", ![c].user_id = clients[c].data]
    /\ UNCHANGED <<users, OtherVars>>

\* The insert of the else branch.  With a row of the username already
\* there, the table either takes a second one or, under a unique
\* constraint, raises; nothing in the handler catches that.
InsertStep(c) ==
    /\ clients[c].pc = "selected" /\ clients[c].data = 0
    /\ \/ /\ Len(users) < MaxUserRows
          /\ users' = Append(users, clients[c].username)
          /\ clients' = [clients EXCEPT ![c].pc = "done", ![c].user_id = Len(users) + 1]
       \/ /\ SelectUser(clients[c].username) # 0
          /\ clients' = [clients EXCEPT ![c].pc = "failed"]
          /\ UNCHANGED users
    /\ UNCHANGED OtherVars

\* The page is loaded again: a new session at the login form.
ReloadStep(c) ==
    /\ clients[c].pc \in {"done", "failed"}
    /\ clients' = [clients EXCEPT ![c] = AtLoginForm]
    /\ UNCHANGED <<users, OtherVars>>

UserNext ==
    \E c \in Clients :
       \/ SelectStep(c)
       \/ ReturnStep(c)
       \/ InsertStep(c)
       \/ ReloadStep(c)

UserSpec == Init /\ [][UserNext]_vars

\* ------------------------------------------------- the lesson under fairness
\* LiveSpec: every external call returns normally with a well-formed result
\* and the user keeps pressing the button on screen.
Rerun ==
    /\ rerun
    /\ Handle(NoEvent, DefaultOracle)

Login ==
    /\ Idle /\ shown = "login_form"
    /\ \E l \in StoredLevels :
          Handle([type |-> "start_session", username |-> TRUE],
                 [DefaultOracle EXCEPT !.user_level = l])

StartLesson ==
    /\ Idle /\ shown = "lobby"
    /\ hist.sessions < MaxSessions
    /\ \E p \in PlanResponses :
          /\ generate_lesson_plan(p) # <<>>
          /\ Handle([type |-> "start_guided", topic |-> TRUE, goal |-> TRUE],
                    [DefaultOracle EXCEPT !.plan = p])

RequestQuiz ==
    /\ Idle /\ shown = "teaching"
    /\ \E q \in QuestionLists :
          Handle([type |-> "ready_quiz"],
                 [DefaultOracle EXCEPT !.quiz = [kind |-> "list", items |-> q]])

\* The lesson-complete screen offers the final-review button only.
PressFinalQuiz ==
    /\ Idle /\ shown = "lesson_complete"
    /\ \E q \in QuestionLists :
          Handle([type |-> "final_quiz"],
                 [DefaultOracle EXCEPT !.quiz = [kind |-> "list", items |-> q]])

LiveNext ==
    \/ Rerun
    \/ PressLogin
    \/ Login
    \/ StartLesson
    \/ RequestQuiz
    \/ SubmitAnswer
    \/ Continue
    \/ PressFinalQuiz

LiveSpec == Init /\ [][LiveNext]_vars /\ WF_vars(LiveNext)

\* C21: in every TEACHING state the transcript is non-empty and its last
\* message, the context of the mini-quiz request, is the assistant's
\* explanation generated for plan[lesson_step].
C21_QuizContextIsTheStepExplanation ==
    (LoggedIn /\ InPhase("TEACHING"))
       => /\ ss.messages # <<>>
          /\ Last(ss.messages).role = "assistant"
          /\ Last(ss.messages).content.kind = "explanation"
          /\ ss.lesson_step < Len(ss.lesson_plan)
          /\ Last(ss.messages).content.sub_topic = At(ss.lesson_plan, ss.lesson_step)

\* What the user can do on the Study a Document page.
DocEvents ==
    {NoEvent, [type |-> "ask_doc"]} \cup {[type |-> "upload", file |-> f] : f \in Documents}

\* C22: in Study a Document, a run sets processed_file to a document's name
\* only when process_file returned True for that document; a run in which
\* process_file returned False leaves processed_file and the transcript as
\* they were; and a chat input while processed_file is unset appends nothing
\* to the transcript, persists nothing and issues no generate_answer call
\* (so no embedding, search or generation call).
C22_ProcessedOnlyAfterSuccess ==
    (Idle /\ shown = "doc")
       => \A ev \in DocEvents, p \in ProcessOutcomes, a \in {"ok", "error", "exception"} :
             \A r \in {Script(Running, ev,
                               [DefaultOracle EXCEPT !.process = p, !.answer = a])} :
                LET file == IF ev.type = "upload" THEN ev.file ELSE ss.uploaded_file
                    called == \E i \in 1..Len(r.calls) : r.calls[i].fn = "process_file"
                IN /\ r.ss.processed_file # ss.processed_file
                         => called /\ process_file(p) /\ r.ss.processed_file = file
                   /\ (called /\ ~process_file(p))
                         => /\ r.ss.processed_file = ss.processed_file
                            /\ ev.type # "ask_doc" => r.ss.messages = ss.messages
                   /\ (ev.type = "ask_doc" /\ r.ss.processed_file = NoKey)
                         => /\ r.ss.messages = ss.messages
                            /\ r.conversations = conversations
                            /\ \A i \in 1..Len(r.calls) :
                                  r.calls[i].fn # "generate_answer"
C22_Witness ==
    /\ Idle /\ shown = "doc"
    /\ ss.uploaded_file # NoKey /\ ss.processed_file = NoKey
    /\ "process_file" \in CalledFns

\* The rows stored under a document name, in table order.
RowsOf(file_name) == SelectSeq(documents, LAMBDA row : row.file_name = file_name)

\* C23: whenever process_file returns True for a newly ingested document
\* whose text splits into n chunks, exactly n rows are stored under its
\* name, one per chunk in chunk order, each with its own embedding, also
\* when the embedding call fails.
C23_OneRowPerChunk ==
    (/\ result.fn = "process_file"
     /\ ~result.args.stored
     /\ process_file(result.out))
       => RowsOf(result.args.original_filename)
             = [i \in 1..result.args.o.chunks
                   |-> [file_name |-> result.args.original_filename,
                        chunk |-> i, embedding |-> i]]

\* C24: the quiz stored in session state is a non-empty list of questions,
\* each with a correct_answer that is one of its options; generator output
\* of any other shape is not stored.
C24_StoredQuizIsWellFormed ==
    ss.quiz_questions # NoneQuiz
       => /\ ss.quiz_questions.kind = "list"
          /\ Len(ss.quiz_questions.items) >= 1
          /\ \A i \in 1..Len(ss.quiz_questions.items) :
                ss.quiz_questions.items[i].correct_answer \in 1..NumOptions

\* C25: the persisted history is loaded into the transcript at most once
\* per logged-in session: the run that follows the clearing of the
\* transcript by a successful upload or by End Session, in which no user
\* action appends a message, leaves the transcript empty (stated for the
\* sessions in which no external call has failed).
C25_ClearedTranscriptStaysEmpty ==
    [][(/\ rerun /\ event \in {"upload", "end_session"}
        /\ ss.messages = <<>> /\ hist.faults = 0)
          => ss'.messages = <<>>]_vars

\* C26: index bounds.  lesson_step is within 0..len(lesson_plan), and below
\* len(lesson_plan) whenever a render starts with in_guided_session true;
\* current_question_index is within 0..len(quiz_questions) whenever a quiz
\* is stored; and quiz_questions is a non-empty list whenever step_phase is
\* 'quizzing' or quiz_mode is true.
C26_IndexBounds ==
    LoggedIn
       => /\ 0 <= ss.lesson_step /\ ss.lesson_step <= Len(ss.lesson_plan)
          /\ ss.in_guided_session => ss.lesson_step < Len(ss.lesson_plan)
          /\ ss.quiz_questions # NoneQuiz
                => /\ 0 <= ss.current_question_index
                   /\ ss.current_question_index <= PyLen(ss.quiz_questions)
          /\ (ss.step_phase = "quizzing" \/ ss.quiz_mode)
                => /\ ss.quiz_questions.kind = "list"
                   /\ Len(ss.quiz_questions.items) >= 1

\* C27: with every call well-formed and the user pressing what is offered,
\* every guided session started with a plan of n >= 1 steps reaches DONE
\* (no session in progress, lesson_step = n) after exactly n completed
\* mini-quizzes: each advance of lesson_step follows a mini-quiz of that
\* step whose questions the user all answered, and the session ends.
C27_SessionReachesDoneAfterNQuizzes ==
    /\ [][ss'.lesson_step = ss.lesson_step + 1 => MiniQuizCompleted]_vars
    /\ \A n \in 1..MaxLines :
          (ss.in_guided_session /\ Len(ss.lesson_plan) = n)
             ~> (InPhase("DONE") /\ ss.lesson_step = n)

\* C28: get_or_create_user yields at most one row per username: whatever
\* the interleaving of the Start Session actions of concurrent sessions with
\* the same username, the users table holds one row for it and all of them
\* obtain the same user id.
C28_OneRowPerUsername ==
    /\ \A i, j \in 1..Len(users) : users[i] = users[j] => i = j
    /\ \A c \in Clients : clients[c].pc # "failed"
    /\ \A c, d \in Clients :
          (/\ clients[c].pc = "done" /\ clients[d].pc = "done"
           /\ clients[c].username = clients[d].username)
             => clients[c].user_id = clients[d].user_id

====
